---- MODULE Spec2Model ----
(***************************************************************************)
(* A model of cognivator/qfx-converter: qfx_converter.py (the convert      *)
(* operation: extraction, conversion, verification, main) and              *)
(* verify_conversion.py (the standalone verify operation).                 *)
(*                                                                         *)
(* A document is a sequence of tokens.  A token is a closed field          *)
(* <TAG>text</TAG>, an open-only leaf <TAG>text, or a bare marker <TAG>.   *)
(* The enclosed text is a sequence of one-character strings and never      *)
(* holds "<", so every regular expression of the source, which starts at   *)
(* "<TAG>" and ends at "</TAG>" or ">", matches whole tokens only.         *)
(***************************************************************************)
EXTENDS Integers, Sequences, FiniteSets

(***************************************************************************)
(* Characters and the character classes of the regular expressions.        *)
(***************************************************************************)
Digits == {"0", "1", "2", "3", "4", "5", "6", "7", "8", "9"}

DigitVal(c) ==
  CASE c = "0" -> 0 [] c = "1" -> 1 [] c = "2" -> 2 [] c = "3" -> 3
    [] c = "4" -> 4 [] c = "5" -> 5 [] c = "6" -> 6 [] c = "7" -> 7
    [] c = "8" -> 8 [] c = "9" -> 9

DigitChar(d) ==
  CASE d = 0 -> "0" [] d = 1 -> "1" [] d = 2 -> "2" [] d = 3 -> "3"
    [] d = 4 -> "4" [] d = 5 -> "5" [] d = 6 -> "6" [] d = 7 -> "7"
    [] d = 8 -> "8" [] d = 9 -> "9"

\* t[a..b], empty when a > b
Slice(t, a, b) == IF a > b THEN <<>> ELSE SubSeq(t, a, b)

AllDigits(t) == \A i \in 1..Len(t) : t[i] \in Digits

\* \d+
IsDigitRun(t) == Len(t) >= 1 /\ AllDigits(t)

\* \d*\.?\d*  (what may follow the mandatory digits of a timestamp)
IsFractionTail(t) ==
  \/ AllDigits(t)
  \/ \E k \in 1..Len(t) :
       /\ t[k] = "."
       /\ AllDigits(Slice(t, 1, k - 1))
       /\ AllDigits(Slice(t, k + 1, Len(t)))

\* (\d{n})\d+\.?\d*  matched against the whole enclosed text
IsTimestamp(t, n) ==
  /\ Len(t) >= n + 1
  /\ AllDigits(Slice(t, 1, n + 1))
  /\ IsFractionTail(Slice(t, n + 2, Len(t)))

RECURSIVE Pow10(_)
Pow10(n) == IF n = 0 THEN 1 ELSE 10 * Pow10(n - 1)

\* int() of a run of digits
RECURSIVE DigitsToNat(_)
DigitsToNat(t) ==
  IF Len(t) = 0 THEN 0
  ELSE 10 * DigitsToNat(Slice(t, 1, Len(t) - 1)) + DigitVal(t[Len(t)])

\* str() of a natural number
RECURSIVE NatToDigits(_)
NatToDigits(n) ==
  IF n < 10 THEN <<DigitChar(n)>>
  ELSE Append(NatToDigits(n \div 10), DigitChar(n % 10))

\* n written with exactly w digits (leading zeros kept)
RECURSIVE NatToFixed(_, _)
NatToFixed(n, w) ==
  IF w = 0 THEN <<>>
  ELSE Append(NatToFixed(n \div 10, w - 1), DigitChar(n % 10))

(***************************************************************************)
(* Python floats.  A finite float is (-1)^neg * m * 10^(-e), normalised so *)
(* that m carries no trailing decimal zero; the sign of zero is kept.      *)
(* Every text of the model has few significant digits, and for those       *)
(* float(), negation and repr() are exact on the decimal value.            *)
(***************************************************************************)
NotAFloat == [kind |-> "error"]
NaN == [kind |-> "nan"]
Inf(neg) == [kind |-> "inf", neg |-> neg]

RECURSIVE Normalise(_, _, _)
Normalise(neg, m, e) ==
  IF e > 0 /\ m % 10 = 0 THEN Normalise(neg, m \div 10, e - 1)
  ELSE [kind |-> "fin", neg |-> neg, m |-> m, e |-> e]

\* str.strip(): float() ignores surrounding whitespace
RECURSIVE Strip(_)
Strip(t) ==
  IF Len(t) = 0 THEN t
  ELSE IF t[1] = " " THEN Strip(Tail(t))
  ELSE IF t[Len(t)] = " " THEN Strip(Slice(t, 1, Len(t) - 1))
  ELSE t

\* the unsigned part of a float literal: inf, nan, digits[.digits], .digits
ParseUnsigned(t, neg) ==
  IF t = <<"i", "n", "f">> THEN Inf(neg)
  ELSE IF t = <<"n", "a", "n">> THEN NaN
  ELSE IF IsDigitRun(t) THEN Normalise(neg, DigitsToNat(t), 0)
  ELSE IF \E k \in 1..Len(t) : t[k] = "."
    THEN LET k == CHOOSE k \in 1..Len(t) : t[k] = "."
             ip == Slice(t, 1, k - 1)
             fp == Slice(t, k + 1, Len(t))
         IN  IF AllDigits(ip) /\ AllDigits(fp) /\ Len(ip) + Len(fp) >= 1
               THEN Normalise(neg,
                              DigitsToNat(ip) * Pow10(Len(fp)) + DigitsToNat(fp),
                              Len(fp))
               ELSE NotAFloat
  ELSE NotAFloat

\* float(text); NotAFloat stands for the ValueError
ParseFloat(text) ==
  LET t == Strip(text)
  IN  IF Len(t) = 0 THEN NotAFloat
      ELSE IF t[1] = "-" THEN ParseUnsigned(Tail(t), TRUE)
      ELSE IF t[1] = "+" THEN ParseUnsigned(Tail(t), FALSE)
      ELSE ParseUnsigned(t, FALSE)

\* -amount
Negate(v) ==
  IF v.kind = "nan" THEN v
  ELSE [v EXCEPT !.neg = ~v.neg]

\* a repr that drops the fraction digits
FormatFloat_NoFraction(v) ==
  IF v.kind = "nan" THEN <<"n", "a", "n">>
  ELSE (IF v.neg THEN <<"-">> ELSE <<>>) \o
       (IF v.kind = "inf" THEN <<"i", "n", "f">>
        ELSE NatToDigits(v.m \div Pow10(v.e)) \o <<".", "0">>)

\* repr(float), as the f-string writes it
FormatFloat(v) ==
  IF v.kind = "nan" THEN <<"n", "a", "n">>
  ELSE (IF v.neg THEN <<"-">> ELSE <<>>) \o
       (IF v.kind = "inf" THEN <<"i", "n", "f">>
        ELSE NatToDigits(v.m \div Pow10(v.e)) \o <<".">> \o
             (IF v.e = 0 THEN <<"0">> ELSE NatToFixed(v.m % Pow10(v.e), v.e)))

Max(a, b) == IF a >= b THEN a ELSE b

Abs(x) == IF x < 0 THEN -x ELSE x

Signed(v) == IF v.neg THEN -v.m ELSE v.m

\* the comparison written >= instead of >
ExceedsTolerance_Inclusive(orig, conv) ==
  IF orig.kind = "nan" \/ conv.kind = "nan" THEN FALSE
  ELSE IF orig.kind = "inf" /\ conv.kind = "inf" THEN orig.neg = conv.neg
  ELSE IF orig.kind = "inf" \/ conv.kind = "inf" THEN TRUE
  ELSE LET E == Max(Max(orig.e, conv.e), 2)
           s == Signed(orig) * Pow10(E - orig.e) + Signed(conv) * Pow10(E - conv.e)
       IN  Abs(s) >= Pow10(E - 2)

\* abs(orig + conv) > 0.01 ; a comparison with NaN is False
ExceedsTolerance(orig, conv) ==
  IF orig.kind = "nan" \/ conv.kind = "nan" THEN FALSE
  ELSE IF orig.kind = "inf" /\ conv.kind = "inf" THEN orig.neg = conv.neg
  ELSE IF orig.kind = "inf" \/ conv.kind = "inf" THEN TRUE
  ELSE LET E == Max(Max(orig.e, conv.e), 2)
           s == Signed(orig) * Pow10(E - orig.e) + Signed(conv) * Pow10(E - conv.e)
       IN  Abs(s) > Pow10(E - 2)

(***************************************************************************)
(* Tokens and the texts the source names.                                  *)
(***************************************************************************)
Field(tag, text) == [kind |-> "field", tag |-> tag, text |-> text]

Leaf(tag, text) == [kind |-> "leaf", tag |-> tag, text |-> text]

Marker(tag) == [kind |-> "marker", tag |-> tag, text |-> <<>>]

SourceId == <<"1", "2", "1", "3", "9">>

TargetId == <<"1", "0", "8", "9", "8">>

NotFound == <<"N", "o", "t", " ", "f", "o", "u", "n", "d">>

\* re.search(r'<TAG>(\d+)</TAG>'): group(1) of the first match, or 'Not found'
FirstDigitField(doc, tag) ==
  LET hit(t) == t.kind = "field" /\ t.tag = tag /\ IsDigitRun(t.text)
      found == SelectSeq(doc, hit)
  IN  IF Len(found) = 0 THEN NotFound ELSE found[1].text

\* a match of r'<TRNAMT>([^<]+)</TRNAMT>'
IsAmountField(t) == t.kind = "field" /\ t.tag = "TRNAMT" /\ Len(t.text) >= 1

\* re.findall(r'<TRNAMT>([^<]+)</TRNAMT>')
AmountTexts(doc) ==
  LET found == SelectSeq(doc, IsAmountField)
  IN  [i \in 1..Len(found) |-> found[i].text]

\* a count of the amount fields instead of the record markers
CountTransactions_Amounts(doc) == Len(AmountTexts(doc))

\* len(re.findall(r'<STMTTRN>'))
CountTransactions(doc) ==
  Len(SelectSeq(doc, LAMBDA t : t.tag = "STMTTRN"))

\* float(amt) raises ValueError for some amount
AmountsRaise(doc) ==
  LET amounts == AmountTexts(doc)
  IN  \E i \in 1..Len(amounts) : ParseFloat(amounts[i]) = NotAFloat

extract_key_elements(doc) ==
  LET amounts == AmountTexts(doc)
  IN  [FID |-> FirstDigitField(doc, "FID"),
       INTU_BID |-> FirstDigitField(doc, "INTU.BID"),
       amounts |-> [i \in 1..Len(amounts) |-> ParseFloat(amounts[i])],
       transaction_count |-> CountTransactions(doc)]

(***************************************************************************)
(* extract_date_range, extract_latest_year                                 *)
(***************************************************************************)
DateStampWidth == 8

YearWidth == 4

FirstTimestamp(doc, tag, n) ==
  SelectSeq(doc, LAMBDA t : t.kind = "field" /\ t.tag = tag /\ IsTimestamp(t.text, n))

DateRangeRaises(doc) ==
  \/ Len(FirstTimestamp(doc, "DTSTART", DateStampWidth)) = 0
  \/ Len(FirstTimestamp(doc, "DTEND", DateStampWidth)) = 0

extract_date_range(doc) ==
  [start_date |-> Slice(FirstTimestamp(doc, "DTSTART", DateStampWidth)[1].text,
                        1, DateStampWidth),
   end_date |-> Slice(FirstTimestamp(doc, "DTEND", DateStampWidth)[1].text,
                      1, DateStampWidth)]

RECURSIVE MaxYear(_)
MaxYear(stamps) ==
  IF Len(stamps) = 1 THEN DigitsToNat(Slice(stamps[1].text, 1, YearWidth))
  ELSE Max(DigitsToNat(Slice(stamps[1].text, 1, YearWidth)), MaxYear(Tail(stamps)))

extract_latest_year(doc) ==
  LET date_matches == FirstTimestamp(doc, "DTPOSTED", YearWidth)
  IN  IF Len(date_matches) = 0
        THEN Slice(extract_date_range(doc).end_date, 1, YearWidth)
        ELSE NatToDigits(MaxYear(date_matches))

(***************************************************************************)
(* convert_qfx                                                             *)
(***************************************************************************)
\* a remap that is never applied
RemapId_Skip(t, tag) == t

\* a remap of every digit value (r'<TAG>\d+</TAG>')
RemapId_AnyValue(t, tag) ==
  IF t.kind = "field" /\ t.tag = tag /\ IsDigitRun(t.text)
    THEN Field(tag, TargetId)
    ELSE t

\* re.sub(r'<TAG>12139</TAG>', '<TAG>10898</TAG>') on one token
RemapId(t, tag) ==
  IF t.kind = "field" /\ t.tag = tag /\ t.text = SourceId
    THEN Field(tag, TargetId)
    ELSE t

\* a replacement that keeps the sign
reverse_amount_KeepSign(text) == FormatFloat(ParseFloat(text))

\* reverse_amount: the replacement text of one TRNAMT match
reverse_amount(text) == FormatFloat(Negate(ParseFloat(text)))

ReverseAmountField(t) ==
  IF IsAmountField(t) THEN Field("TRNAMT", reverse_amount(t.text)) ELSE t

\* float(match.group(1)) raises inside re.sub
ConvertRaises(doc) == AmountsRaise(doc)

convert_qfx(doc) ==
  LET fid == [i \in 1..Len(doc) |-> RemapId(doc[i], "FID")]
      intu == [i \in 1..Len(fid) |-> RemapId(fid[i], "INTU.BID")]
  IN  [i \in 1..Len(intu) |-> ReverseAmountField(intu[i])]

(***************************************************************************)
(* verify_conversion (qfx_converter.py)                                    *)
(***************************************************************************)
Min(a, b) == IF a <= b THEN a ELSE b

\* the for loop over zip(orig, conv) with its break, from index i on
RECURSIVE SignsLoop(_, _, _)
SignsLoop(orig, conv, i) ==
  IF i > Min(Len(orig), Len(conv)) THEN TRUE
  ELSE IF ExceedsTolerance(orig[i], conv[i]) THEN FALSE
  ELSE SignsLoop(orig, conv, i + 1)

signs_reversed_check(orig, conv) ==
  IF Len(orig) > 0 /\ Len(conv) > 0 THEN SignsLoop(orig, conv, 1) ELSE TRUE

verify_conversion(original_content, converted_content) ==
  LET orig_elements == extract_key_elements(original_content)
      conv_elements == extract_key_elements(converted_content)
      fid_changed == orig_elements.FID # conv_elements.FID
      intu_changed == orig_elements.INTU_BID # conv_elements.INTU_BID
      count_same == orig_elements.transaction_count = conv_elements.transaction_count
      signs_reversed == signs_reversed_check(orig_elements.amounts, conv_elements.amounts)
  IN  [fid_changed |-> fid_changed,
       intu_changed |-> intu_changed,
       count_same |-> count_same,
       signs_reversed |-> signs_reversed,
       success |-> fid_changed /\ intu_changed /\ count_same /\ signs_reversed]

(***************************************************************************)
(* verify_conversion.py: the comparison of main                            *)
(***************************************************************************)
PreviewCap == 5

Take(s, n) == IF Len(s) <= n THEN s ELSE SubSeq(s, 1, n)

\* the for loop over zip(orig_amounts, conv_amounts), without a break
RECURSIVE StandaloneLoop(_, _, _, _)
StandaloneLoop(orig, conv, i, acc) ==
  IF i > Min(Len(orig), Len(conv)) THEN acc
  ELSE StandaloneLoop(orig, conv, i + 1,
                      IF ExceedsTolerance(orig[i], conv[i]) THEN FALSE ELSE acc)

standalone_compare(original_content, converted_content) ==
  LET orig_elements == extract_key_elements(original_content)
      conv_elements == extract_key_elements(converted_content)
      orig_amounts == Take(orig_elements.amounts, PreviewCap)
      conv_amounts == Take(conv_elements.amounts, PreviewCap)
      signs_reversed == StandaloneLoop(orig_amounts, conv_amounts, 1, TRUE)
  IN  [signs_reversed |-> signs_reversed,
       all_good |-> /\ orig_elements.FID # conv_elements.FID
                    /\ orig_elements.INTU_BID # conv_elements.INTU_BID
                    /\ orig_elements.transaction_count = conv_elements.transaction_count
                    /\ signs_reversed]

(***************************************************************************)
(* The input documents of the convert operation: a header (institution     *)
(* identifiers, statement dates) followed by at most MaxBody body tokens.  *)
(***************************************************************************)
MaxBody == 2

MaxRuns == 2

OtherId == <<"9", "9", "9">>

FidHeads ==
  {<<>>,
   <<Field("FID", SourceId)>>,
   <<Field("FID", OtherId), Field("FID", SourceId)>>,
   <<Leaf("FID", SourceId)>>}

IntuHeads ==
  {<<Field("INTU.BID", SourceId)>>,
   <<Field("INTU.BID", TargetId)>>,
   <<Field("INTUXBID", SourceId)>>}

StartStamp == <<"2", "0", "2", "4", "0", "1", "0", "1", "0", "0", "0", "0", "0", "0">>

EndStamp ==
  <<"2", "0", "2", "4", "0", "1", "3", "1", "0", "0", "0", "0", "0", "0", ".", "0", "0", "0">>

PostedStamp == <<"2", "0", "2", "5", "0", "1", "0", "2", "1", "2", "0", "0", "0", "0">>

DateHeads ==
  {<<Field("DTSTART", StartStamp), Field("DTEND", EndStamp)>>,
   <<Field("DTSTART", StartStamp)>>,
   <<Field("DTSTART", Slice(StartStamp, 1, DateStampWidth)), Field("DTEND", EndStamp)>>}

BodyTokens ==
  {Marker("STMTTRN"),
   Field("DTPOSTED", PostedStamp),
   Field("TRNAMT", <<"-", "4", "2", ".", "5", "0">>),
   Field("TRNAMT", <<" ", "0">>),
   Field("TRNAMT", <<"a", "b", "c">>),
   Field("TRNAMT", <<>>),
   Leaf("TRNAMT", <<"7", ".", "5">>)}

RECURSIVE SeqsUpTo(_, _)
SeqsUpTo(S, n) ==
  IF n = 0 THEN {<<>>}
  ELSE LET shorter == SeqsUpTo(S, n - 1)
       IN  shorter \cup {Append(q, x) : q \in {r \in shorter : Len(r) = n - 1}, x \in S}

Docs ==
  {f \o u \o d \o b : f \in FidHeads, u \in IntuHeads, d \in DateHeads,
                      b \in SeqsUpTo(BodyTokens, MaxBody)}

(***************************************************************************)
(* State                                                                   *)
(***************************************************************************)
VARIABLES
  fs,                 \* the files: a set of [path, content]
  dirs,               \* the directories made
  args,               \* [input_file, no_verify]
  pc,                 \* where main stands
  qfx_content, start_date, end_date, latest_year, output_path,
  converted_content,
  wrote,              \* the write of the output file has happened in this run
  report,             \* what verify_conversion computed in this run
  exit_code,          \* -1 while running
  raised,             \* what ended the run
  run,                \* the number of this invocation
  prev_input,         \* the document the previous invocation read
  original_content,   \* the file the verify operation reads as the original
  compared_content,   \* the file it reads as the converted one
  standalone,         \* what main of verify_conversion.py computed
  library,            \* what qfx_converter.verify_conversion computed on the pair
  vraised,            \* what the verify operation raised
  vpc                 \* where the verify operation stands

convertVars ==
  <<fs, dirs, args, pc, qfx_content, start_date, end_date, latest_year, output_path,
    converted_content, wrote, report, exit_code, raised, run, prev_input>>

verifyVars == <<original_content, compared_content, standalone, library, vraised, vpc>>

vars == <<convertVars, verifyVars>>

InputPath ==
  [dir |-> <<".">>,
   name |-> <<"t", "r", "a", "n", "s", "a", "c", "t", "i", "o", "n", "s", ".", "q", "f", "x">>]

NameSuffix ==
  <<"_", "t", "r", "a", "n", "s", "a", "c", "t", "i", "o", "n", "s", ".", "Q", "F", "X">>

NoPath == [dir |-> <<>>, name |-> <<>>]

NoReport ==
  [fid_changed |-> FALSE, intu_changed |-> FALSE, count_same |-> FALSE,
   signs_reversed |-> FALSE, success |-> FALSE]

Exists(path) == \E f \in fs : f.path = path

ContentAt(path) == (CHOOSE f \in fs : f.path = path).content

WriteFile(path, content) ==
  {f \in fs : f.path # path} \cup {[path |-> path, content |-> content]}

Locals ==
  <<qfx_content, start_date, end_date, latest_year, output_path, converted_content,
    wrote, report>>

Exit(code, why) ==
  /\ pc' = "exit"
  /\ exit_code' = code
  /\ raised' = why

InitLocals ==
  /\ qfx_content = <<>>
  /\ start_date = <<>>
  /\ end_date = <<>>
  /\ latest_year = <<>>
  /\ output_path = NoPath
  /\ converted_content = <<>>
  /\ wrote = FALSE
  /\ report = NoReport
  /\ exit_code = -1
  /\ raised = "none"

ResetLocals ==
  /\ qfx_content' = <<>>
  /\ start_date' = <<>>
  /\ end_date' = <<>>
  /\ latest_year' = <<>>
  /\ output_path' = NoPath
  /\ converted_content' = <<>>
  /\ wrote' = FALSE
  /\ report' = NoReport
  /\ exit_code' = -1
  /\ raised' = "none"

VerifyIdle ==
  /\ original_content = <<>>
  /\ compared_content = <<>>
  /\ standalone = [signs_reversed |-> FALSE, all_good |-> FALSE]
  /\ library = NoReport
  /\ vraised = "none"
  /\ vpc = "idle"

Init ==
  /\ fs \in {{}} \cup {{[path |-> InputPath, content |-> d]} : d \in Docs}
  /\ dirs = {}
  /\ args \in {[input_file |-> InputPath, no_verify |-> nv] : nv \in BOOLEAN}
  /\ pc = "check_input"
  /\ InitLocals
  /\ run = 1
  /\ prev_input = <<>>
  /\ VerifyIdle

(***************************************************************************)
(* main of qfx_converter.py, one action per step                           *)
(***************************************************************************)
\* if not os.path.exists(args.input_file): exit 1
CheckInput ==
  /\ pc = "check_input"
  /\ IF Exists(args.input_file)
       THEN pc' = "read" /\ UNCHANGED <<exit_code, raised>>
       ELSE Exit(1, "MissingFile")
  /\ UNCHANGED <<fs, dirs, args, Locals, run, prev_input, verifyVars>>

\* open(args.input_file).read(); an OSError is caught and exits 1
ReadInput ==
  /\ pc = "read"
  /\ \E ok \in BOOLEAN :
       IF ok
         THEN /\ qfx_content' = ContentAt(args.input_file)
              /\ pc' = "dates"
              /\ UNCHANGED <<exit_code, raised>>
         ELSE /\ Exit(1, "OSError")
              /\ UNCHANGED qfx_content
  /\ UNCHANGED <<fs, dirs, args, start_date, end_date, latest_year, output_path,
                 converted_content, wrote, report, run, prev_input, verifyVars>>

\* extract_date_range, extract_latest_year; a ValueError is caught and exits 1
ExtractDates ==
  /\ pc = "dates"
  /\ IF DateRangeRaises(qfx_content)
       THEN /\ Exit(1, "ValueError")
            /\ UNCHANGED <<start_date, end_date, latest_year>>
       ELSE /\ start_date' = extract_date_range(qfx_content).start_date
            /\ end_date' = extract_date_range(qfx_content).end_date
            /\ latest_year' = extract_latest_year(qfx_content)
            /\ pc' = "mkdir"
            /\ UNCHANGED <<exit_code, raised>>
  /\ UNCHANGED <<fs, dirs, args, qfx_content, output_path, converted_content, wrote,
                 report, run, prev_input, verifyVars>>

\* output_dir.mkdir(parents=True, exist_ok=True); output_path, with the
\* defaults of --output-dir (./<latest year>) and --output-file
MakeDir ==
  /\ pc = "mkdir"
  /\ \E ok \in BOOLEAN :
       IF ok
         THEN /\ dirs' = dirs \cup {latest_year}
              /\ output_path' = [dir |-> latest_year,
                                 name |-> start_date \o <<"-">> \o end_date \o NameSuffix]
              /\ pc' = "convert"
              /\ UNCHANGED <<exit_code, raised>>
         ELSE /\ Exit(1, "OSError")
              /\ UNCHANGED <<dirs, output_path>>
  /\ UNCHANGED <<fs, args, qfx_content, start_date, end_date, latest_year,
                 converted_content, wrote, report, run, prev_input, verifyVars>>

\* a main that opens the output file for writing before it converts
Convert_AfterOpen ==
  /\ pc = "convert"
  /\ fs' = WriteFile(output_path, <<>>)
  /\ wrote' = TRUE
  /\ IF ConvertRaises(qfx_content)
       THEN /\ Exit(1, "ValueError")
            /\ UNCHANGED converted_content
       ELSE /\ converted_content' = convert_qfx(qfx_content)
            /\ pc' = "write"
            /\ UNCHANGED <<exit_code, raised>>
  /\ UNCHANGED <<dirs, args, qfx_content, start_date, end_date, latest_year,
                 output_path, report, run, prev_input, verifyVars>>

\* converted_content = convert_qfx(qfx_content); a ValueError is caught and exits 1
Convert ==
  /\ pc = "convert"
  /\ IF ConvertRaises(qfx_content)
       THEN /\ Exit(1, "ValueError")
            /\ UNCHANGED converted_content
       ELSE /\ converted_content' = convert_qfx(qfx_content)
            /\ pc' = "write"
            /\ UNCHANGED <<exit_code, raised>>
  /\ UNCHANGED <<fs, dirs, args, qfx_content, start_date, end_date, latest_year,
                 output_path, wrote, report, run, prev_input, verifyVars>>

\* open(output_path, 'w').write(converted_content)
WriteOutput ==
  /\ pc = "write"
  /\ \E ok \in BOOLEAN :
       IF ok
         THEN /\ fs' = WriteFile(output_path, converted_content)
              /\ wrote' = TRUE
              /\ pc' = "verify"
              /\ UNCHANGED <<exit_code, raised>>
         ELSE /\ Exit(1, "OSError")
              /\ UNCHANGED <<fs, wrote>>
  /\ UNCHANGED <<dirs, args, qfx_content, start_date, end_date, latest_year,
                 output_path, converted_content, report, run, prev_input, verifyVars>>

\* a main that removes the output file when verification fails
Verify_RemovesOutput ==
  /\ pc = "verify"
  /\ ~args.no_verify
  /\ report' = verify_conversion(qfx_content, converted_content)
  /\ IF report'.success
       THEN Exit(0, "none") /\ UNCHANGED fs
       ELSE Exit(1, "VerificationFailed") /\ fs' = {f \in fs : f.path # output_path}
  /\ UNCHANGED <<dirs, args, qfx_content, start_date, end_date, latest_year,
                 output_path, converted_content, wrote, run, prev_input, verifyVars>>

\* if not args.no_verify: verify_conversion(...); exit 1 when it fails
Verify ==
  /\ pc = "verify"
  /\ ~args.no_verify
  /\ report' = verify_conversion(qfx_content, converted_content)
  /\ IF report'.success THEN Exit(0, "none") ELSE Exit(1, "VerificationFailed")
  /\ UNCHANGED <<fs, dirs, args, qfx_content, start_date, end_date, latest_year,
                 output_path, converted_content, wrote, run, prev_input, verifyVars>>

\* else: print("Verification skipped")
SkipVerify ==
  /\ pc = "verify"
  /\ args.no_verify
  /\ Exit(0, "none")
  /\ UNCHANGED <<fs, dirs, args, Locals, run, prev_input, verifyVars>>

\* the tool is invoked again, on the file the last invocation wrote
Rerun ==
  /\ pc = "exit"
  /\ wrote
  /\ run < MaxRuns
  /\ \E nv \in BOOLEAN : args' = [input_file |-> output_path, no_verify |-> nv]
  /\ prev_input' = qfx_content
  /\ run' = run + 1
  /\ pc' = "check_input"
  /\ ResetLocals
  /\ UNCHANGED <<fs, dirs, verifyVars>>

Next ==
  \/ CheckInput
  \/ ReadInput
  \/ ExtractDates
  \/ MakeDir
  \/ Convert
  \/ WriteOutput
  \/ Verify
  \/ SkipVerify
  \/ Rerun

Spec == Init /\ [][Next]_vars

(***************************************************************************)
(* The verify operation on a pair of files.  A file holds an identifier    *)
(* header, at most MaxMarkers STMTTRN markers, either no run or a run of   *)
(* PreviewCap equal amounts, and a tail of at most MaxTail amounts.        *)
(***************************************************************************)
MaxMarkers == 1

MaxTail == 1

IdHeads ==
  {<<>>,
   <<Field("FID", SourceId), Field("INTU.BID", SourceId)>>,
   <<Field("FID", TargetId), Field("INTU.BID", TargetId)>>}

RunAmount == Field("TRNAMT", <<"0", ".", "0", "0", "5">>)

TailAmounts ==
  {Field("TRNAMT", <<"1", ".", "0", "0">>),
   Field("TRNAMT", <<"-", "1", ".", "0", "0">>),
   Field("TRNAMT", <<"n", "a", "n">>),
   Field("TRNAMT", <<"a", "b", "c">>)}

Repeat(x, n) == [i \in 1..n |-> x]

VerifyDocs ==
  {h \o Repeat(Marker("STMTTRN"), n) \o Repeat(RunAmount, k) \o t :
     h \in IdHeads, n \in 0..MaxMarkers, k \in {0, PreviewCap},
     t \in SeqsUpTo(TailAmounts, MaxTail)}

ConvertIdle ==
  /\ fs = {}
  /\ dirs = {}
  /\ args = [input_file |-> InputPath, no_verify |-> FALSE]
  /\ pc = "idle"
  /\ InitLocals
  /\ run = 0
  /\ prev_input = <<>>

InitVerify ==
  /\ original_content \in VerifyDocs
  /\ compared_content \in VerifyDocs
  /\ standalone = [signs_reversed |-> FALSE, all_good |-> FALSE]
  /\ library = NoReport
  /\ vraised = "none"
  /\ vpc = "extract"
  /\ ConvertIdle

\* main of verify_conversion.py: extract_key_elements of both files;
\* a ValueError is caught and exits 1
StandaloneExtract ==
  /\ vpc = "extract"
  /\ IF AmountsRaise(original_content) \/ AmountsRaise(compared_content)
       THEN vraised' = "ValueError" /\ vpc' = "done"
       ELSE vraised' = "none" /\ vpc' = "compare"
  /\ UNCHANGED <<original_content, compared_content, standalone, library, convertVars>>

\* main of verify_conversion.py: the comparisons and the overall status
StandaloneCompare ==
  /\ vpc = "compare"
  /\ standalone' = standalone_compare(original_content, compared_content)
  /\ vpc' = "library"
  /\ UNCHANGED <<original_content, compared_content, library, vraised, convertVars>>

\* qfx_converter.verify_conversion on the same pair
LibraryVerify ==
  /\ vpc = "library"
  /\ library' = verify_conversion(original_content, compared_content)
  /\ vpc' = "done"
  /\ UNCHANGED <<original_content, compared_content, standalone, vraised, convertVars>>

NextVerify ==
  \/ StandaloneExtract
  \/ StandaloneCompare
  \/ LibraryVerify

SpecVerify == InitVerify /\ [][NextVerify]_vars

(***************************************************************************)
(* Vocabulary of the claims, stated on the documents themselves.           *)
(***************************************************************************)
\* the conversion of this run has produced converted_content
Converted == pc \in {"write", "verify"} \/ (pc = "exit" /\ wrote)

\* verify_conversion has run in this invocation
VerifyRan == pc = "exit" /\ wrote /\ ~args.no_verify

\* DTSTART and DTEND present, every TRNAMT text numeric
WellFormed(doc) == ~DateRangeRaises(doc) /\ ~AmountsRaise(doc)

Holds(doc, tag, text) == \E i \in 1..Len(doc) : doc[i] = Field(tag, text)

MarkerCount(doc) == Cardinality({i \in 1..Len(doc) : doc[i].tag = "STMTTRN"})

AmountCount(doc) ==
  Cardinality({i \in 1..Len(doc) :
                 doc[i].kind = "field" /\ doc[i].tag = "TRNAMT" /\ doc[i].text # <<>>})

AmountsOf(doc) == extract_key_elements(doc).amounts

\* |a + a| <= 0.01, or a is NaN: an amount that verifies against itself
SelfReversing(a) ==
  \/ a.kind = "nan"
  \/ a.kind = "fin" /\ 200 * a.m <= Pow10(a.e)

\* |o + c| <= 0.01 as a comparison of numbers: false when the sum is
\* infinite or not a number
WithinTolerance(o, c) ==
  /\ o.kind = "fin"
  /\ c.kind = "fin"
  /\ LET E == Max(Max(o.e, c.e), 2)
         so == IF o.neg THEN -(o.m * Pow10(E - o.e)) ELSE o.m * Pow10(E - o.e)
         sc == IF c.neg THEN -(c.m * Pow10(E - c.e)) ELSE c.m * Pow10(E - c.e)
     IN  so + sc <= Pow10(E - 2) /\ -(so + sc) <= Pow10(E - 2)

VerifyDone == vpc = "done" /\ vraised = "none"

(***************************************************************************)
(* C1.  Original claim: for a well-formed document that contains an FID    *)
(* field and an INTU.BID field holding 12139, the verification of the      *)
(* conversion against the document reports overall success.                *)
(***************************************************************************)
C1_AnySourceIdSucceeds ==
  (/\ VerifyRan
   /\ WellFormed(qfx_content)
   /\ Holds(qfx_content, "FID", SourceId)
   /\ Holds(qfx_content, "INTU.BID", SourceId))
  => report.success

(***************************************************************************)
(* C1, amended: when the first digit-valued FID field and the first        *)
(* digit-valued INTU.BID field of a well-formed document hold 12139, the   *)
(* verification of its conversion reports overall success.                 *)
(***************************************************************************)
C1_FirstSourceIdSucceeds ==
  (/\ VerifyRan
   /\ WellFormed(qfx_content)
   /\ FirstDigitField(qfx_content, "FID") = SourceId
   /\ FirstDigitField(qfx_content, "INTU.BID") = SourceId)
  => (report.success /\ exit_code = 0)

\* C1 witness: a verified run on such a document with amounts and a marker
C1_Witness ==
  /\ VerifyRan
  /\ FirstDigitField(qfx_content, "FID") = SourceId
  /\ FirstDigitField(qfx_content, "INTU.BID") = SourceId
  /\ AmountCount(qfx_content) >= 1
  /\ MarkerCount(qfx_content) >= 1
  /\ report.success

(***************************************************************************)
(* C2.  For a valid document with at least one amount, the amounts         *)
(* extracted from the converted document are as many as those of the       *)
(* original, and the amount at each index is the negation of the original  *)
(* amount at that index.                                                   *)
(***************************************************************************)
C2_AmountsNegatedInOrder ==
  (Converted /\ Len(AmountsOf(qfx_content)) >= 1)
  => LET orig == AmountsOf(qfx_content)
         conv == AmountsOf(converted_content)
     IN  /\ ~AmountsRaise(converted_content)
         /\ Len(conv) = Len(orig)
         /\ \A i \in 1..Len(orig) : conv[i] = Negate(orig[i])

\* C2 witness: a converted document with two different amounts
C2_Witness ==
  /\ Converted
  /\ Len(AmountsOf(qfx_content)) = 2
  /\ AmountsOf(qfx_content)[1] # AmountsOf(qfx_content)[2]
  /\ AmountsOf(qfx_content)[1].m # 0

(***************************************************************************)
(* C4.  A run that ends with the input file missing, or with a malformed   *)
(* document (a date range that is not found, an amount that is not         *)
(* numeric), exits non-zero and has not written the output file.           *)
(***************************************************************************)
C4_NoOutputOnEarlyError ==
  raised \in {"MissingFile", "ValueError"}
  => /\ pc = "exit"
     /\ exit_code = 1
     /\ ~wrote
     /\ (run = 1 => \A f \in fs : f.path = InputPath)

\* C4 witness: a run ended by a non-numeric amount, after the dates were found
\* and the output directory was made
C4_Witness ==
  /\ pc = "exit"
  /\ raised = "ValueError"
  /\ ~DateRangeRaises(qfx_content)
  /\ AmountsRaise(qfx_content)
  /\ dirs # {}

(***************************************************************************)
(* C5.  Verification runs only after the output file is written; a failed  *)
(* verification exits non-zero and leaves the written file in place; with  *)
(* --no-verify no verification runs and a run that wrote the file exits 0. *)
(***************************************************************************)
C5_VerifyAfterWrite ==
  /\ (report # NoReport \/ raised = "VerificationFailed") => wrote
  /\ raised = "VerificationFailed"
       => /\ pc = "exit" /\ exit_code = 1 /\ ~args.no_verify /\ ~report.success
          /\ Exists(output_path)
          /\ ContentAt(output_path) = converted_content
  /\ VerifyRan => (exit_code = 0 <=> report.success)
  /\ (pc = "exit" /\ wrote /\ args.no_verify)
       => /\ exit_code = 0 /\ raised = "none" /\ report = NoReport
          /\ Exists(output_path)
          /\ ContentAt(output_path) = converted_content

\* C5 witness: a run whose verification failed, the output file in place
C5_Witness ==
  /\ pc = "exit"
  /\ raised = "VerificationFailed"
  /\ Exists(output_path)
  /\ converted_content # qfx_content

(***************************************************************************)
(* C6.  The conversion changes only FID fields holding 12139, INTU.BID     *)
(* fields holding 12139 and the text of TRNAMT fields; every other token   *)
(* is copied through in place, an FID or INTU.BID field holding another    *)
(* value included, and the number of STMTTRN markers is unchanged.         *)
(***************************************************************************)
C6_OnlyThreeSpansChange ==
  Converted
  => /\ Len(converted_content) = Len(qfx_content)
     /\ \A i \in 1..Len(qfx_content) :
          LET t == qfx_content[i]
              c == converted_content[i]
          IN  IF t = Field("FID", SourceId) THEN c = Field("FID", TargetId)
              ELSE IF t = Field("INTU.BID", SourceId) THEN c = Field("INTU.BID", TargetId)
              ELSE IF t.kind = "field" /\ t.tag = "TRNAMT"
                THEN c.kind = "field" /\ c.tag = "TRNAMT"
              ELSE c = t
     /\ MarkerCount(converted_content) = MarkerCount(qfx_content)

\* C6 witness: a converted document with an FID field of another value, an
\* amount and a marker
C6_Witness ==
  /\ Converted
  /\ Holds(qfx_content, "FID", OtherId)
  /\ Holds(converted_content, "FID", OtherId)
  /\ Holds(converted_content, "FID", TargetId)
  /\ AmountCount(qfx_content) >= 1
  /\ MarkerCount(qfx_content) >= 1
  /\ converted_content # qfx_content

(***************************************************************************)
(* C7.  The amounts extracted from the conversion of a converted document  *)
(* are exactly the amounts extracted from the original document.           *)
(***************************************************************************)
C7_DoubleConversionRestoresAmounts ==
  (run >= 2 /\ Converted)
  => /\ ~AmountsRaise(converted_content)
     /\ AmountsOf(converted_content) = AmountsOf(prev_input)

\* C7 witness: the second conversion of a document with a non-zero amount,
\* whose text the conversions have re-serialized
C7_Witness ==
  /\ run = 2
  /\ Converted
  /\ \E i \in 1..Len(AmountsOf(prev_input)) : AmountsOf(prev_input)[i].m # 0
  /\ AmountTexts(converted_content) # AmountTexts(prev_input)

(***************************************************************************)
(* C3.  Original claim: comparing a document with itself reports both      *)
(* institution-ID checks failed, the count check passed and the            *)
(* signs-reversed check passed, with or without amounts.                   *)
(***************************************************************************)
C3_SelfCompareSignsPass ==
  (VerifyDone /\ original_content = compared_content)
  => /\ ~library.fid_changed
     /\ ~library.intu_changed
     /\ library.count_same
     /\ library.signs_reversed

(***************************************************************************)
(* C3, amended: comparing a document with itself reports both              *)
(* institution-ID checks failed and the count check passed; the            *)
(* signs-reversed check passes exactly when no amount a of the document    *)
(* has |a + a| > 0.01 (there are no amounts, or each is within 0.005 of    *)
(* zero or NaN).                                                           *)
(***************************************************************************)
C3_SelfCompare ==
  (VerifyDone /\ original_content = compared_content)
  => /\ ~library.fid_changed
     /\ ~library.intu_changed
     /\ library.count_same
     /\ ~library.success
     /\ library.signs_reversed
          <=> \A i \in 1..Len(AmountsOf(original_content)) :
                SelfReversing(AmountsOf(original_content)[i])

\* C3 witness: a document with amounts compared with itself, the signs check passed
C3_Witness ==
  /\ VerifyDone
  /\ original_content = compared_content
  /\ Len(AmountsOf(original_content)) >= 1
  /\ library.signs_reversed
  /\ library.count_same

(***************************************************************************)
(* C8.  The standalone verify operation computes the same overall status   *)
(* as verify_conversion of the convert operation on every pair of          *)
(* documents, pairs with more than five amounts included.                  *)
(***************************************************************************)
C8_StandaloneAgreesWithLibrary ==
  VerifyDone => (standalone.all_good = library.success)

(***************************************************************************)
(* C9.  The signs-reversed check is true exactly when either amount        *)
(* sequence is empty or |original[i] + converted[i]| <= 0.01 at every      *)
(* index below the shorter length; overall success is the conjunction of   *)
(* the four checks.                                                        *)
(***************************************************************************)
C9_SignsCheckIsTolerance ==
  VerifyDone
  => LET orig == AmountsOf(original_content)
         conv == AmountsOf(compared_content)
     IN  /\ library.signs_reversed
              <=> \/ Len(orig) = 0
                  \/ Len(conv) = 0
                  \/ \A i \in 1..Min(Len(orig), Len(conv)) :
                       WithinTolerance(orig[i], conv[i])
         /\ library.success
              <=> /\ library.fid_changed
                  /\ library.intu_changed
                  /\ library.count_same
                  /\ library.signs_reversed

(***************************************************************************)
(* C10.  Original claim: verify_conversion does not report overall success *)
(* when, in either document, the number of extracted amounts differs from  *)
(* the number of STMTTRN markers.                                          *)
(***************************************************************************)
C10_AmountsAgreeWithMarkers ==
  (/\ VerifyDone
   /\ \/ AmountCount(original_content) # MarkerCount(original_content)
      \/ AmountCount(compared_content) # MarkerCount(compared_content))
  => ~library.success

(***************************************************************************)
(* C10, amended: verify_conversion compares the numbers of STMTTRN markers *)
(* of the two documents with each other, and does not report overall       *)
(* success when they differ; it never compares a document's amounts with   *)
(* its own markers.                                                        *)
(***************************************************************************)
C10_MarkerCountsCompared ==
  VerifyDone
  => /\ library.count_same
          <=> MarkerCount(original_content) = MarkerCount(compared_content)
     /\ MarkerCount(original_content) # MarkerCount(compared_content)
          => ~library.success

\* C10 witness: a pair whose marker counts alone keep verification from succeeding
C10_Witness ==
  /\ VerifyDone
  /\ MarkerCount(original_content) # MarkerCount(compared_content)
  /\ library.fid_changed
  /\ library.intu_changed
  /\ library.signs_reversed
  /\ Len(AmountsOf(original_content)) >= 1
  /\ ~library.success

====
